---- MODULE Spec2Model ----
(***************************************************************************)
(* Hippocampus Game for STK500 (src/hippocampusgame.c): a Simon-style      *)
(* memory game on four active-low LEDs (PORTB) and switches (PIND).        *)
(*                                                                         *)
(* The program is one polling loop.  A state of the model is the program   *)
(* stopped just before its next port access: pc names that access (a read  *)
(* of PIND or a write of PORTB), phase the part of main/init/play that is  *)
(* running, and the remaining variables are the C globals and the live     *)
(* locals.  Each action is one port access together with the control flow  *)
(* that follows it up to the next port access.                             *)
(***************************************************************************)
EXTENDS Integers, Sequences, FiniteSets, TLC

\* ---------------------------------------------------------------- bounds
\* The busy-wait budgets.  The source sets DELAYTIME 300, STANDBYTIMEOUT 20
\* and KEYTIMEOUT 1000000 (lines 103-105); the model keeps the loops and
\* scales the iteration counts down.
DELAYTIME == 2
STANDBYTIMEOUT == 2
KEYTIMEOUT == 2

\* The largest count passed to delay_long when it is called on its own.
MaxCount == 3

\* ------------------------------------------------------ program constants
\* const int lengths[4] = {5, 7, 9, 11};
lengths == <<5, 7, 9, 11>>

\* lengths[level] with level outside 0..3 reads past the array: any int the
\* memory behind it may hold.  Representatives: no position at all, a length
\* not in the table, and a length above the 15-symbol capacity.
OOBLengths == {0, 3, 16}

\* Samples of PIND that the environment may present at a poll: all released,
\* each of SW0..SW3 alone, SW0+SW1 together, and SW4 alone.
Samples == {255, 254, 253, 251, 247, 252, 239}

\* Results of random() assigned to seq (a long in 0..2^31-1): symbols
\* [2,0,3,1,2,0,...], all symbols 0, all symbols 3 (the 16th is 1), and the
\* repeating 3,2,1,0.
RandomValues == {626, 0, 2147483647, 454761243}

\* --------------------------------------------------------- bit arithmetic
Bit(x, b) == (x \div (2 ^ b)) % 2

\* a & b on 8-bit operands
And8(a, b) ==
    LET f[k \in 0..8] == IF k = 8 THEN 0
                         ELSE Bit(a, k) * Bit(b, k) * (2 ^ k) + f[k + 1]
    IN f[0]

\* ~x of an int, converted to unsigned char
Not8(x) == (-x - 1) % 256

\* unsigned char number2bits(int number) { return ~(0b1 << number); }
number2bitsNoInvert(number) == (2 ^ number) % 256
number2bits(number) == Not8(2 ^ number)

\* int bits2number(unsigned char bits): the switch of lines 330-341
bits2numberShifted(bits) ==
    CASE bits = 254 -> 1
      [] bits = 253 -> 2
      [] bits = 251 -> 3
      [] bits = 247 -> 4
      [] OTHER -> 8
bits2number(bits) ==
    CASE bits = 254 -> 0
      [] bits = 253 -> 1
      [] bits = 251 -> 2
      [] bits = 247 -> 3
      [] OTHER -> 8

\* int led = seq >> (j<<1) & 0b11;   (play, lines 155 and 164)
LedShiftByJ(s, jj) == (s \div (2 ^ jj)) % 4
Led(s, jj) == (s \div (2 ^ (jj * 2))) % 4

\* !(~keyboard & keypattern & (unsigned char)0xFF)   (line 279)
NoPatternKey(kb, keypattern) == And8(And8(Not8(kb), keypattern), 255) = 0

\* the PORTB values celebrate() writes in one cycle (lines 178-208)
CelebratePattern ==
    <<254, 255, 254, 255, 253, 255, 253, 255,
      251, 255, 251, 255, 247, 255, 247, 255>>

\* the PORTB values mock() writes in one cycle (lines 217-219)
MockPatternTwo == <<252, 255>>
MockPattern == <<240, 255>>

\* repetitions of the animation loops (lines 176 and 215)
CelebrateCycles == 3
MockCycles == 15

\* ------------------------------------------------------------------ state
VARIABLES
    pc,        \* the next port access (or main's test of sleep)
    phase,     \* the part of main/init/play that is running
    ret,       \* where the running delay_long / while_key_not returns to
    PORTB,     \* LED port, active low
    keyboard,  \* unsigned char keyboard: the last sample of PIND
    sleep,     \* int sleep
    seq,       \* unsigned long seq
    seq_len,   \* int seq_len
    level,     \* init: int level
    win,       \* main: int win
    timeout,   \* while_keypattern_not: int timeout
    count_sb, i_sb, leds,        \* standby: count, i, leds
    count_dl, i_dl, i_delay,     \* delay_long: count, i;  delay: i
    i_play, j_play,              \* play: i, j
    count_wfk, key, error,       \* wait_for_key: count, key, error
    i_anim, step,                \* celebrate/mock: i, and the statement in the loop body
    \* history of the run, read by the properties only
    okPresses, \* accepted key patterns of this round that matched their symbol
    verdict,   \* "none", or how this round's Verify failed
    shown,     \* symbols lit so far in the playback of the current position
    sbIdle,    \* all-released samples taken in the running standby() call
    sbHit,     \* a pressed sample was taken in the running standby() call
               \* (both dropped when standby returns, as okPresses and shown
               \* are when play returns)
    anim,      \* the feedback animations started in this round
    cycles,    \* completed cycles of the running animation
    animPolls, \* samples taken during this round's animations
    animKeys,  \* a pressed sample was taken during this round's animations
    fresh,     \* gen_seq ran in this round
    everReleased, \* a sample with all keys released was taken since power-on
    \* the pure conversions applied to arbitrary inputs (SpecBits only)
    fn_in, fn_out, fn_op

ctl == <<pc, phase, ret>>
io == <<PORTB, keyboard>>
glob == <<sleep, seq, seq_len>>
sbv == <<count_sb, i_sb, leds>>
dlv == <<count_dl, i_dl, i_delay>>
plv == <<i_play, j_play>>
wfv == <<count_wfk, key, error>>
anv == <<i_anim, step>>
gplay == <<okPresses, verdict, shown>>
gsb == <<sbIdle, sbHit>>
ganim == <<anim, cycles, animPolls, animKeys>>
fnv == <<fn_in, fn_out, fn_op>>

vars == <<ctl, io, glob, level, win, timeout, sbv, dlv, plv, wfv, anv,
          gplay, gsb, ganim, fresh, fnv, everReleased>>

SetCtl(a, b, c) == pc' = a /\ phase' = b /\ ret' = c
SetSbv(a, b, c) == count_sb' = a /\ i_sb' = b /\ leds' = c
SetDlv(a, b, c) == count_dl' = a /\ i_dl' = b /\ i_delay' = c
SetPlv(a, b) == i_play' = a /\ j_play' = b
SetWfv(a, b, c) == count_wfk' = a /\ key' = b /\ error' = c
SetAnv(a, b) == i_anim' = a /\ step' = b
SetGPlay(a, b, c) == okPresses' = a /\ verdict' = b /\ shown' = c
SetGAnim(a, b, c, e) == anim' = a /\ cycles' = b /\ animPolls' = c /\ animKeys' = e

SelectPhases == {"SelectMode", "SelectLevel"}
AnimPhases == {"Celebrate", "Mock"}
\* delay_long(count, 0) and delay_long(count, 1) called on their own
DelayLongPhases == {"DelayLong0", "DelayLong1"}

\* The program after main's port setup (lines 110-112), about to call
\* while_key(0b11111111).  int sleep = 1; the other globals are zero.
InitProgram ==
    /\ PORTB = 255 /\ keyboard = 0 /\ sleep = 1 /\ seq = 0 /\ seq_len = 0
    /\ level = 0 /\ win = 0 /\ timeout = 0
    /\ count_sb = 0 /\ i_sb = 0 /\ leds = 0
    /\ count_dl = 0 /\ i_dl = 0 /\ i_delay = 0
    /\ i_play = 0 /\ j_play = 0
    /\ count_wfk = 0 /\ key = 0 /\ error = 0
    /\ i_anim = 0 /\ step = 0
    /\ okPresses = 0 /\ verdict = "none" /\ shown = <<>>
    /\ sbIdle = 0 /\ sbHit = FALSE
    /\ anim = <<>> /\ cycles = 0 /\ animPolls = 0 /\ animKeys = FALSE
    /\ fresh = FALSE /\ everReleased = FALSE

Init ==
    /\ InitProgram
    /\ pc = "while_key" /\ phase = "WaitStart" /\ ret = ""
    /\ fn_in = 0 /\ fn_out = 0 /\ fn_op = "none"

\* ------------------------------------------------- conditions of the code
\* delay(interruptible): standby calls delay(1) (line 240); play, celebrate
\* and mock pass 0 (lines 152-159, 179-220).
InterruptibleAlways(ph) == TRUE
InterruptibleNever(ph) == FALSE
Interruptible(ph) == ph \in SelectPhases \cup {"DelayLong1"}

\* standby: count < STANDBYTIMEOUT (line 233)
StandbyBudgetShort(c) == c < STANDBYTIMEOUT - 1
StandbyBudgetLeft(c) == c < STANDBYTIMEOUT

\* while_key: while(keyboard == key)  (line 258)
KeyStillLowBits(kb, k) == kb % 16 = k % 16
KeyStill(kb, k) == kb = k

\* while_key_not: while(keyboard != key)  (line 266)
KeyDiffersLowBits(kb, k) == kb % 16 # k % 16
KeyDiffers(kb, k) == kb # k

\* wait_for_key: if(count > KEYTIMEOUT) break;  (line 289)
KeyBudgetLate(c) == c > KEYTIMEOUT + 1
KeyBudgetSpent(c) == c > KEYTIMEOUT

\* play: if(error) return 0;  (line 166)
PlayIgnoresError(e) == FALSE
PlayAborts(e) == e # 0

\* main: if(sleep) continue;  (line 118)
MainNeverSkips(s) == FALSE
MainSkipsRound(s) == s # 0

\* gen_seq: seq_len = lengths[level];  (line 226)
LengthOf(lv) == IF lv \in 0..3 THEN {lengths[lv + 1]} ELSE OOBLengths

\* ------------------------------------------------------ calls and returns
\* main line 117: init() -> while_keypattern_not(0b00000011) -> standby().
\* A new round starts; the history of the previous one is dropped.
EnterInit ==
    /\ SetCtl("standby_off", "SelectMode", "")
    /\ level' = 0 /\ win' = 0
    /\ SetGPlay(0, "none", <<>>)
    /\ SetGAnim(<<>>, 0, 0, FALSE)
    /\ fresh' = FALSE

\* delay_long(c, 0) called from play; r is the statement after the call
CallDelayLong(c, r) ==
    /\ pc' = "delay" /\ ret' = r /\ SetDlv(c, 0, 0)

\* wait_for_key(k) called from play (line 165): count = 0, then
\* while_key_not(0b11111111) (lines 285-286)
CallWaitForKeyNoRelease(k) ==
    /\ SetCtl("wfk_poll", "Verify", "wfk_poll")
    /\ SetWfv(0, k, 0)
CallWaitForKey(k) ==
    /\ SetCtl("while_key_not", "Verify", "wfk_poll")
    /\ SetWfv(0, k, 0)

\* play returns w (lines 167, 171); main lines 120-124 start the animation
PlayReturn(w) ==
    /\ win' = w
    /\ IF w # 0 THEN SetCtl("celebrate", "Celebrate", "")
                ELSE SetCtl("mock", "Mock", "")
    /\ anim' = Append(anim, IF w # 0 THEN "Celebrate" ELSE "Mock")
    /\ SetDlv(0, 0, 0) /\ SetPlv(0, 0) /\ SetAnv(0, 0)
    /\ SetGPlay(0, verdict, <<>>)
    /\ UNCHANGED <<cycles, animPolls, animKeys>>

\* play's outer loop at its test i <= seq_len with i = ii (line 150), then
\* delay_long(12, 0) (line 152)
PlayPosition(ii) ==
    IF ii <= seq_len
    THEN /\ phase' = "Playback" /\ CallDelayLong(12, "led_on")
         /\ SetPlv(ii, 0) /\ shown' = <<>>
         /\ UNCHANGED <<win, anv, ganim, okPresses, verdict>>
    ELSE PlayReturn(1)

\* standby: leds <<= 1; leds |= 1;  on an unsigned char (lines 245-246)
ShiftInZero(l) == (l * 2) % 256
ShiftInOne(l) == LET s == (l * 2) % 256 IN s + 1 - Bit(s, 0)

\* standby's inner loop body from line 238: PORTB = leds unless sleep,
\* then delay(1)
StandbySubStep ==
    /\ pc' = IF sleep = 0 THEN "standby_led" ELSE "delay"
    /\ SetDlv(0, 0, 0)

\* standby after delay(1) returned 0 (lines 245-249)
StandbyAdvance ==
    IF i_sb + 1 < 4
    THEN /\ SetSbv(count_sb, i_sb + 1, ShiftInOne(leds))
         /\ StandbySubStep
    ELSE IF StandbyBudgetLeft(count_sb + 1)
    THEN /\ SetSbv(count_sb + 1, 0, 254)
         /\ StandbySubStep
    ELSE /\ pc' = "standby_end"
         /\ SetSbv(0, 0, 0) /\ SetDlv(0, 0, 0)

\* play after delay_long returned (lines 153-165)
PlaybackAdvance ==
    CASE ret = "led_on" ->
            /\ SetCtl("led_on", phase, "") /\ SetDlv(0, 0, 0)
            /\ UNCHANGED <<plv, wfv>>
      [] ret = "led_off" ->
            /\ SetCtl("led_off", phase, "") /\ SetDlv(0, 0, 0)
            /\ UNCHANGED <<plv, wfv>>
      [] ret = "next" ->
            IF j_play + 1 < i_play
            THEN /\ SetCtl("led_on", phase, "") /\ SetDlv(0, 0, 0)
                 /\ SetPlv(i_play, j_play + 1)
                 /\ UNCHANGED wfv
            ELSE /\ CallWaitForKey(number2bits(Led(seq, 0)))
                 /\ SetPlv(i_play, 0) /\ SetDlv(0, 0, 0)

\* Line 125 left out: after the last cycle main goes straight to init().
AnimAdvanceNoRelease ==
    LET n == IF phase = "Celebrate" THEN Len(CelebratePattern) ELSE Len(MockPattern)
        m == IF phase = "Celebrate" THEN CelebrateCycles ELSE MockCycles
        w == IF phase = "Celebrate" THEN "celebrate" ELSE "mock"
    IN  IF step + 1 < n
        THEN /\ SetCtl(w, phase, "") /\ SetAnv(i_anim, step + 1)
             /\ cycles' = cycles
        ELSE IF i_anim + 1 < m
        THEN /\ SetCtl(w, phase, "") /\ SetAnv(i_anim + 1, 0)
             /\ cycles' = cycles + 1
        ELSE /\ SetCtl("standby_off", "SelectMode", "")
             /\ SetAnv(0, 0) /\ cycles' = cycles + 1

\* celebrate/mock after a delay(0) (lines 176-210, 215-221); after the
\* last cycle main calls while_key_not(0b11111111) (line 125)
AnimAdvance ==
    LET n == IF phase = "Celebrate" THEN Len(CelebratePattern) ELSE Len(MockPattern)
        m == IF phase = "Celebrate" THEN CelebrateCycles ELSE MockCycles
        w == IF phase = "Celebrate" THEN "celebrate" ELSE "mock"
    IN  IF step + 1 < n
        THEN /\ SetCtl(w, phase, "") /\ SetAnv(i_anim, step + 1)
             /\ cycles' = cycles
        ELSE IF i_anim + 1 < m
        THEN /\ SetCtl(w, phase, "") /\ SetAnv(i_anim + 1, 0)
             /\ cycles' = cycles + 1
        ELSE /\ SetCtl("while_key_not", "WaitRestart", "")
             /\ SetAnv(0, 0) /\ cycles' = cycles + 1

\* delay returns r to its caller
DelayReturn(r) ==
    CASE phase \in SelectPhases ->
            /\ IF r # 0
               THEN pc' = "standby_int" /\ UNCHANGED <<sbv, dlv>>
               ELSE StandbyAdvance
            /\ UNCHANGED <<phase, ret, plv, wfv, anv, cycles>>
      [] phase = "Playback" ->
            /\ IF r = 0 /\ i_dl + 1 < count_dl
               THEN /\ SetDlv(count_dl, i_dl + 1, 0)
                    /\ UNCHANGED <<ctl, plv, wfv>>
               ELSE PlaybackAdvance
            /\ UNCHANGED <<sbv, anv, cycles>>
      [] phase \in AnimPhases ->
            /\ AnimAdvance
            /\ SetDlv(0, 0, 0)
            /\ UNCHANGED <<sbv, plv, wfv>>
      [] phase \in DelayLongPhases ->
            /\ IF r = 0 /\ i_dl + 1 < count_dl
               THEN /\ SetDlv(count_dl, i_dl + 1, 0)
                    /\ UNCHANGED ctl
               ELSE /\ SetCtl("returned", phase, IF r # 0 THEN "true" ELSE "false")
                    /\ UNCHANGED dlv
            /\ UNCHANGED <<sbv, plv, wfv, anv, cycles>>

\* the keypattern init passes to while_keypattern_not (lines 132, 138)
KeyPattern(ph) == IF ph = "SelectMode" THEN 3 ELSE 15

\* the n-th 2-bit symbol of a packed sequence, n = 0 first
Symbol(sq, n) == (sq \div (4 ^ n)) % 4

\* the port pattern that lights (or the sample that presses) only number n
Single(n) == 255 - 2 ^ n

\* ---------------------------------------------------------------- actions
\* while_key(0b11111111) in main (lines 113, 253-259)
WhileKey ==
    /\ pc = "while_key"
    /\ \E s \in Samples :
          /\ keyboard' = s
          /\ everReleased' = (everReleased \/ s = 255)
          /\ IF KeyStill(s, 255)
             THEN UNCHANGED <<ctl, level, win, gplay, ganim, fresh>>
             ELSE EnterInit
    /\ UNCHANGED <<PORTB, glob, timeout, sbv, dlv, plv, wfv, anv, gsb, fnv>>

\* standby: PORTB = 0xFF and the loop heads (lines 232-238)
StandbyOff ==
    /\ pc = "standby_off"
    /\ PORTB' = 255
    /\ SetSbv(0, 0, 254)
    /\ StandbySubStep
    /\ sbIdle' = 0 /\ sbHit' = FALSE
    /\ UNCHANGED <<phase, ret, keyboard, glob, level, win, timeout, plv, wfv,
                   anv, gplay, ganim, fresh, fnv, everReleased>>

\* standby: if(!sleep) PORTB = leds;  (lines 238-239)
StandbyLed ==
    /\ pc = "standby_led"
    /\ PORTB' = leds
    /\ pc' = "delay"
    /\ UNCHANGED <<phase, ret, keyboard, glob, level, win, timeout, sbv, dlv,
                   plv, wfv, anv, gplay, gsb, ganim, fresh, fnv, everReleased>>

\* delay: one pass of its loop (lines 311-320); delay_long's loop around it
\* (lines 303-306)
Delay ==
    /\ pc = "delay"
    /\ \E s \in Samples :
          /\ keyboard' = s
          /\ everReleased' = (everReleased \/ s = 255)
          /\ sbIdle' = IF phase \in SelectPhases /\ s = 255 THEN sbIdle + 1 ELSE sbIdle
          /\ sbHit' = (sbHit \/ (phase \in SelectPhases /\ s # 255))
          /\ animPolls' = IF phase \in AnimPhases THEN animPolls + 1 ELSE animPolls
          /\ animKeys' = (animKeys \/ (phase \in AnimPhases /\ s # 255))
          /\ IF Interruptible(phase) /\ s # 255
             THEN /\ pc' = "delay_mirror"
                  /\ UNCHANGED <<phase, ret, sbv, dlv, plv, wfv, anv, cycles>>
             ELSE IF i_delay + 1 < DELAYTIME
             THEN /\ i_delay' = i_delay + 1
                  /\ UNCHANGED <<ctl, sbv, count_dl, i_dl, plv, wfv, anv, cycles>>
             ELSE DelayReturn(0)
    /\ UNCHANGED <<PORTB, glob, level, win, timeout, okPresses, verdict, shown,
                   anim, fresh, fnv>>

\* delay: PORTB = keyboard; return 1;  (lines 315-316)
DelayMirror ==
    /\ pc = "delay_mirror"
    /\ PORTB' = keyboard
    /\ DelayReturn(1)
    /\ UNCHANGED <<keyboard, glob, level, win, timeout, gplay, gsb, anim,
                   animPolls, animKeys, fresh, fnv, everReleased>>

\* standby: PORTB = 0xFF; return 0;  (lines 242-243), then the loop test
\* of while_keypattern_not and sleep = 0 (lines 273-280)
StandbyInterrupted ==
    /\ pc = "standby_int"
    /\ PORTB' = 255
    /\ timeout' = 0
    /\ IF NoPatternKey(keyboard, KeyPattern(phase))
       THEN pc' = "standby_off" /\ sleep' = sleep
       ELSE /\ sleep' = 0
            /\ pc' = IF phase = "SelectMode" THEN "mirror_mode" ELSE "mirror_level"
    /\ SetSbv(0, 0, 0) /\ SetDlv(0, 0, 0)
    /\ sbIdle' = 0 /\ sbHit' = FALSE
    /\ UNCHANGED <<phase, ret, keyboard, seq, seq_len, level, win, plv, wfv,
                   anv, gplay, ganim, fresh, fnv, everReleased>>

\* standby: PORTB = 0xFF; return 1;  (lines 249-250), then sleep = 1 and
\* the returns of while_keypattern_not and init (lines 274-278, 133-134,
\* 139-140)
StandbyTimeout ==
    /\ pc = "standby_end"
    /\ PORTB' = 255
    /\ timeout' = 1
    /\ sleep' = 1
    /\ pc' = "main_check"
    /\ sbIdle' = 0 /\ sbHit' = FALSE
    /\ UNCHANGED <<phase, ret, keyboard, seq, seq_len, level, win, sbv, dlv,
                   plv, wfv, anv, gplay, ganim, fresh, fnv, everReleased>>

\* main: if(sleep) continue;  then init() again (lines 117-119)
MainContinue ==
    /\ pc = "main_check"
    /\ MainSkipsRound(sleep)
    /\ EnterInit
    /\ UNCHANGED <<io, glob, timeout, sbv, dlv, plv, wfv, anv, gsb, fnv, everReleased>>

\* main: int win = play();  up to play's first port access (lines 120,
\* 150-152)
MainPlay ==
    /\ pc = "main_check"
    /\ ~MainSkipsRound(sleep)
    /\ PlayPosition(1)
    /\ UNCHANGED <<io, glob, level, timeout, sbv, wfv, gsb, fresh, fnv, everReleased>>

\* init: PORTB = keyboard;  after the mode key (line 135)
InitMirrorMode ==
    /\ pc = "mirror_mode"
    /\ PORTB' = keyboard
    /\ pc' = "while_key_not"
    /\ UNCHANGED <<phase, ret, keyboard, glob, level, win, timeout, sbv, dlv,
                   plv, wfv, anv, gplay, gsb, ganim, fresh, fnv, everReleased>>

\* init: PORTB = keyboard; int level = bits2number(keyboard);  (lines 141-142)
InitMirrorLevel ==
    /\ pc = "mirror_level"
    /\ PORTB' = keyboard
    /\ level' = bits2number(keyboard)
    /\ pc' = "while_key_not"
    /\ UNCHANGED <<phase, ret, keyboard, glob, win, timeout, sbv, dlv, plv,
                   wfv, anv, gplay, gsb, ganim, fresh, fnv, everReleased>>

\* init: PORTB = keyboard;  after the level key is released (line 144)
InitMirrorRelease ==
    /\ pc = "mirror_release"
    /\ PORTB' = keyboard
    /\ pc' = "gen_seq"
    /\ UNCHANGED <<phase, ret, keyboard, glob, level, win, timeout, sbv, dlv,
                   plv, wfv, anv, gplay, gsb, ganim, fresh, fnv, everReleased>>

\* gen_seq(level) (lines 145, 224-228); init returns to main
GenSeq ==
    /\ pc = "gen_seq"
    /\ \E n \in LengthOf(level), r \in RandomValues :
          /\ seq_len' = n
          /\ seq' = r
    /\ fresh' = TRUE
    /\ pc' = "main_check"
    /\ UNCHANGED <<phase, ret, io, sleep, level, win, timeout, sbv, dlv, plv,
                   wfv, anv, gplay, gsb, ganim, fnv, everReleased>>

\* while_key_not(0b11111111) (lines 261-267), called from init (lines 136,
\* 143), wait_for_key (lines 286, 296) and main (line 125)
WhileKeyNot ==
    /\ pc = "while_key_not"
    /\ \E s \in Samples :
          /\ keyboard' = s
          /\ everReleased' = (everReleased \/ s = 255)
          /\ IF KeyDiffers(s, 255)
             THEN UNCHANGED <<ctl, level, win, gplay, ganim, fresh>>
             ELSE CASE phase = "SelectMode" ->
                         /\ SetCtl("standby_off", "SelectLevel", "")
                         /\ UNCHANGED <<level, win, gplay, ganim, fresh>>
                    [] phase = "SelectLevel" ->
                         /\ SetCtl("mirror_release", phase, "")
                         /\ UNCHANGED <<level, win, gplay, ganim, fresh>>
                    [] phase = "Verify" ->
                         /\ SetCtl(IF ret = "wfk_poll" /\ KeyBudgetSpent(count_wfk)
                                   THEN "wfk_mirror" ELSE ret, phase, "")
                         /\ UNCHANGED <<level, win, gplay, ganim, fresh>>
                    [] phase = "WaitRestart" -> EnterInit
    /\ UNCHANGED <<PORTB, glob, timeout, sbv, dlv, plv, wfv, anv, gsb, fnv>>

\* wait_for_key: one pass of its polling loop (lines 287-293)
WaitForKeyPoll ==
    /\ pc = "wfk_poll"
    /\ \E s \in Samples :
          /\ keyboard' = s
          /\ everReleased' = (everReleased \/ s = 255)
          /\ pc' = IF s = 255 /\ ~KeyBudgetSpent(count_wfk + 1)
                   THEN "wfk_poll" ELSE "wfk_mirror"
    /\ count_wfk' = count_wfk + 1
    /\ UNCHANGED <<phase, ret, PORTB, glob, level, win, timeout, sbv, dlv, plv,
                   key, error, anv, gplay, gsb, ganim, fresh, fnv>>

\* wait_for_key: PORTB = keyboard; int error = keyboard != key;  (lines
\* 294-296)
WaitForKeyMirror ==
    /\ pc = "wfk_mirror"
    /\ PORTB' = keyboard
    /\ error' = IF keyboard # key THEN 1 ELSE 0
    /\ SetCtl("while_key_not", phase, "wfk_done")
    /\ IF keyboard = Single(Symbol(seq, j_play))
       THEN okPresses' = okPresses + 1 /\ verdict' = verdict
       ELSE /\ okPresses' = okPresses
            /\ verdict' = IF verdict # "none" THEN verdict
                          ELSE IF keyboard = 255 THEN "timeout" ELSE "mismatch"
    /\ count_wfk' = 0
    /\ UNCHANGED <<keyboard, glob, level, win, timeout, sbv, dlv, plv,
                   key, anv, shown, gsb, ganim, fresh, fnv, everReleased>>

\* wait_for_key: PORTB = keyboard; return error;  (lines 297-298), then
\* play's test of error and its loop heads (lines 161-171)
WaitForKeyDone ==
    /\ pc = "wfk_done"
    /\ PORTB' = keyboard
    /\ IF PlayAborts(error)
       THEN PlayReturn(0) /\ SetWfv(0, 0, 0)
       ELSE IF j_play + 1 < i_play
       THEN /\ CallWaitForKey(number2bits(Led(seq, j_play + 1)))
            /\ SetPlv(i_play, j_play + 1)
            /\ UNCHANGED <<dlv, anv, win, ganim, gplay>>
       ELSE PlayPosition(i_play + 1) /\ SetWfv(0, 0, 0)
    /\ UNCHANGED <<keyboard, glob, level, timeout, sbv, gsb, fresh, fnv, everReleased>>

\* play: PORTB = number2bits(led); delay_long(4, 0);  (lines 155-157)
PlayLedOn ==
    /\ pc = "led_on"
    /\ PORTB' = number2bits(Led(seq, j_play))
    /\ shown' = Append(shown, PORTB')
    /\ CallDelayLong(4, "led_off")
    /\ UNCHANGED <<phase, keyboard, glob, level, win, timeout, sbv, plv, wfv,
                   anv, okPresses, verdict, gsb, ganim, fresh, fnv, everReleased>>

\* play: PORTB = 0b11111111; delay_long(4, 0);  (lines 158-159)
PlayLedOff ==
    /\ pc = "led_off"
    /\ PORTB' = 255
    /\ CallDelayLong(4, "next")
    /\ UNCHANGED <<phase, keyboard, glob, level, win, timeout, sbv, plv, wfv,
                   anv, gplay, gsb, ganim, fresh, fnv, everReleased>>

\* celebrate: one PORTB = ...; delay(0);  of its loop body (lines 178-209)
Celebrate ==
    /\ pc = "celebrate"
    /\ PORTB' = CelebratePattern[step + 1]
    /\ pc' = "delay"
    /\ UNCHANGED <<phase, ret, keyboard, glob, level, win, timeout, sbv, dlv,
                   plv, wfv, anv, gplay, gsb, ganim, fresh, fnv, everReleased>>

\* mock: one PORTB = ...; delay(0);  of its loop body (lines 217-220)
Mock ==
    /\ pc = "mock"
    /\ PORTB' = MockPattern[step + 1]
    /\ pc' = "delay"
    /\ UNCHANGED <<phase, ret, keyboard, glob, level, win, timeout, sbv, dlv,
                   plv, wfv, anv, gplay, gsb, ganim, fresh, fnv, everReleased>>

Next ==
    \/ WhileKey
    \/ StandbyOff
    \/ StandbyLed
    \/ Delay
    \/ DelayMirror
    \/ StandbyInterrupted
    \/ StandbyTimeout
    \/ MainContinue
    \/ MainPlay
    \/ InitMirrorMode
    \/ InitMirrorLevel
    \/ InitMirrorRelease
    \/ GenSeq
    \/ WhileKeyNot
    \/ WaitForKeyPoll
    \/ WaitForKeyMirror
    \/ WaitForKeyDone
    \/ PlayLedOn
    \/ PlayLedOff
    \/ Celebrate
    \/ Mock

Spec == Init /\ [][Next]_vars

\* ------------------------------------------- the conversions on their own
\* number2bits and bits2number applied to every input of their types.
InitBits ==
    /\ InitProgram
    /\ pc = "bits" /\ phase = "Bits" /\ ret = ""
    /\ fn_in \in 0..255 /\ fn_out = 0 /\ fn_op = "none"

\* number2bits(fn_in) for a number whose shift stays inside the char
CallNumber2Bits ==
    /\ fn_op = "none" /\ fn_in \in 0..7
    /\ fn_out' = number2bits(fn_in)
    /\ fn_op' = "number2bits"
    /\ UNCHANGED <<fn_in, ctl, io, glob, level, win, timeout, sbv, dlv, plv,
                   wfv, anv, gplay, gsb, ganim, fresh, everReleased>>

\* bits2number(fn_in)
CallBits2Number ==
    /\ fn_op = "none"
    /\ fn_out' = bits2number(fn_in)
    /\ fn_op' = "bits2number"
    /\ UNCHANGED <<fn_in, ctl, io, glob, level, win, timeout, sbv, dlv, plv,
                   wfv, anv, gplay, gsb, ganim, fresh, everReleased>>

\* bits2number(number2bits(fn_in)), as init decodes a key that play lit
CallRoundTrip ==
    /\ fn_op = "number2bits"
    /\ fn_out' = bits2number(fn_out)
    /\ fn_op' = "roundtrip"
    /\ UNCHANGED <<fn_in, ctl, io, glob, level, win, timeout, sbv, dlv, plv,
                   wfv, anv, gplay, gsb, ganim, fresh, everReleased>>

NextBits ==
    \/ CallNumber2Bits
    \/ CallBits2Number
    \/ CallRoundTrip

SpecBits == InitBits /\ [][NextBits]_vars

\* ------------------------------------------ delay_long and delay on their own
\* The LED port before the call: LED0 and LED2 lit, a value no sample has.
PortBefore == 250

\* delay_long(count_dl, interruptible) called with every count up to
\* MaxCount and both values of interruptible (lines 301-321).
InitDelay ==
    /\ PORTB = PortBefore /\ keyboard = 0 /\ sleep = 1 /\ seq = 0 /\ seq_len = 0
    /\ level = 0 /\ win = 0 /\ timeout = 0
    /\ count_sb = 0 /\ i_sb = 0 /\ leds = 0
    /\ count_dl \in 0..MaxCount /\ i_dl = 0 /\ i_delay = 0
    /\ i_play = 0 /\ j_play = 0
    /\ count_wfk = 0 /\ key = 0 /\ error = 0
    /\ i_anim = 0 /\ step = 0
    /\ okPresses = 0 /\ verdict = "none" /\ shown = <<>>
    /\ sbIdle = 0 /\ sbHit = FALSE
    /\ anim = <<>> /\ cycles = 0 /\ animPolls = 0 /\ animKeys = FALSE
    /\ fresh = FALSE /\ everReleased = FALSE
    /\ pc = "delay_long" /\ phase \in DelayLongPhases /\ ret = ""
    /\ fn_in = 0 /\ fn_out = 0 /\ fn_op = "none"

\* delay_long: i = 0 and the first test of i < count (line 303)
DelayLong ==
    /\ pc = "delay_long"
    /\ IF i_dl < count_dl
       THEN pc' = "delay" /\ ret' = ret
       ELSE pc' = "returned" /\ ret' = "false"
    /\ UNCHANGED <<phase, io, glob, level, win, timeout, sbv, dlv, plv, wfv,
                   anv, gplay, gsb, ganim, fresh, fnv, everReleased>>

NextDelay ==
    \/ DelayLong
    \/ Delay
    \/ DelayMirror

SpecDelay == InitDelay /\ [][NextDelay]_vars

\* ------------------------------------------------------------- properties
TableLengths == {5, 7, 9, 11}
Triangle(n) == (n * (n + 1)) \div 2
Expected(n) == Single(Symbol(seq, n))
InPlay == phase \in {"Playback", "Verify"}

\* C1: for a length of the table, play returns WIN exactly when every one of
\* the length*(length+1)/2 key patterns accepted in Verify equalled the
\* pattern of its symbol (position i asks symbols 0..i-1 in order), and
\* returns LOSE in every other case.
C1_WinIffAllCorrect ==
    /\ [](phase = "Verify" /\ pc \in {"wfk_poll", "wfk_mirror"} /\ verdict = "none"
            => okPresses = Triangle(i_play - 1) + j_play)
    /\ [][InPlay /\ phase' \in AnimPhases /\ seq_len \in TableLengths
            => /\ win' \in {0, 1}
               /\ (win' = 1) <=> (verdict = "none" /\ okPresses = Triangle(seq_len))
               /\ (win' = 0) <=> (verdict # "none")]_vars

\* C1 witness: the round of level 0 on symbols [2,0,3,1,2] was won
C1_Witness ==
    phase = "Celebrate" /\ win = 1 /\ seq = 626 /\ seq_len = 5 /\ level = 0

\* C2: once an accepted key pattern differs from the expected symbol, no
\* further symbol is polled or compared, no playback and no Celebrate
\* happens in the round, and play is left for Mock.
C2_MismatchLosesAtOnce ==
    /\ [][verdict' = "mismatch" /\ verdict = "none"
            => error' = 1 /\ keyboard \notin {255, Expected(j_play)}]_vars
    /\ [][verdict = "mismatch"
            => /\ pc' \notin {"wfk_poll", "wfk_mirror", "led_on", "led_off", "celebrate"}
               /\ phase' \notin {"Playback", "Celebrate"}
               /\ (pc' = "while_key_not" /\ phase' = "Verify" => ret' = "wfk_done")
               /\ (phase = "Verify" /\ phase' # "Verify"
                      => phase' = "Mock" /\ win' = 0)]_vars

\* C2 witness: a wrong key at position 3 of a level-0 round led to Mock
C2_Witness ==
    phase = "Mock" /\ verdict = "mismatch" /\ seq = 626 /\ seq_len = 5

\* C3: Playback of position i lights the first i symbols in order, one LED
\* at a time with all-off in between, positions come in increasing order,
\* and Verify of position i starts only after all i symbols were shown.
C3_PlaybackShowsPrefix ==
    /\ [](phase = "Playback"
            => /\ i_play \in 1..seq_len /\ j_play \in 0..(i_play - 1)
               /\ PORTB = IF pc = "led_off" \/ (pc = "delay" /\ ret = "led_off")
                          THEN Expected(j_play) ELSE 255
               /\ Len(shown) = IF pc = "led_on" \/ (pc = "delay" /\ ret = "led_on")
                                THEN j_play ELSE j_play + 1
               /\ \A n \in 1..Len(shown) : shown[n] = Expected(n - 1))
    /\ [](phase = "Verify"
            => /\ Len(shown) = i_play
               /\ \A n \in 1..Len(shown) : shown[n] = Expected(n - 1))
    /\ [][phase' = "Playback" /\ (phase # "Playback" \/ i_play' # i_play)
            => \/ i_play' = 1 /\ phase = "SelectLevel"
               \/ i_play' = i_play + 1 /\ phase = "Verify"]_vars

\* C3 witness: Verify of position 5 after its five symbols were lit
C3_Witness ==
    phase = "Verify" /\ i_play = 5 /\ shown = <<251, 254, 247, 253, 251>>

\* C4: wait_for_key stops polling with all keys released only after more
\* than KEYTIMEOUT polls, and then reports an error; after it no symbol is
\* polled or compared, no playback follows, and play is left for Mock.
C4_KeyTimeoutLoses ==
    /\ [][pc = "wfk_poll" /\ keyboard' = 255
            => (pc' = "wfk_mirror") <=> (count_wfk' = KEYTIMEOUT + 1)]_vars
    /\ [][pc = "wfk_mirror" /\ keyboard = 255
            => error' = 1 /\ verdict' = "timeout"]_vars
    /\ [][verdict = "timeout"
            => /\ pc' \notin {"wfk_poll", "wfk_mirror", "led_on", "led_off", "celebrate"}
               /\ phase' \notin {"Playback", "Celebrate"}
               /\ (phase = "Verify" /\ phase' # "Verify"
                      => phase' = "Mock" /\ win' = 0)]_vars

\* C4 witness: a round was lost by the key timeout
C4_Witness ==
    phase = "Mock" /\ verdict = "timeout" /\ win = 0

StandbyBudget == STANDBYTIMEOUT * 4 * DELAYTIME

\* C5: standby returns 1 exactly after STANDBYTIMEOUT * 4 delays of
\* all-released samples, returns 0 at the first pressed sample, and has
\* written 0xFF to the LED port when it returns.
C5_StandbyResult ==
    /\ [](sbHit => pc \in {"delay_mirror", "standby_int"})
    /\ [](sbIdle = StandbyBudget /\ ~sbHit <=> pc = "standby_end")
    /\ [][pc = "standby_end"
            => timeout' = 1 /\ PORTB' = 255 /\ ~sbHit /\ sbIdle = StandbyBudget]_vars
    /\ [][pc = "standby_int"
            => timeout' = 0 /\ PORTB' = 255 /\ sbHit /\ sbIdle < StandbyBudget]_vars

\* C5 witness: standby ran out its budget during mode selection
C5_Witness ==
    pc = "main_check" /\ timeout = 1 /\ phase = "SelectMode" /\ PORTB = 255

\* C6: whenever Playback runs, seq_len is lengths[level] for a level in
\* 0..3 and is at most 15.
C6_LengthFromTable ==
    phase = "Playback"
        => level \in 0..3 /\ seq_len = lengths[level + 1] /\ seq_len <= 15

\* C7: number2bits(n), n in 0..3, has exactly bit n clear; bits2number
\* inverts it; bits2number is 8 on every other 8-bit input.
C7_Conversions ==
    /\ (fn_op = "number2bits" /\ fn_in \in 0..3
          => \A b \in 0..7 : Bit(fn_out, b) = IF b = fn_in THEN 0 ELSE 1)
    /\ (fn_op = "roundtrip" /\ fn_in \in 0..3 => fn_out = fn_in)
    /\ (fn_op = "bits2number" /\ fn_in \notin {254, 253, 251, 247}
          => fn_out = 8)

\* C7 witness: 3 went through number2bits and back through bits2number
C7_Witness ==
    fn_op = "roundtrip" /\ fn_in = 3 /\ fn_out = 3

\* the pattern an animation holds on the port: the one just written, or at
\* the next write the one written before it
AnimShows(pattern) ==
    LET n == Len(pattern)
    IN  IF pc = "delay" THEN PORTB = pattern[step + 1]
        ELSE (i_anim > 0 \/ step > 0)
                => PORTB = pattern[IF step = 0 THEN n ELSE step]

\* C8: leaving play starts exactly one animation, Celebrate for WIN and
\* Mock for LOSE; Celebrate runs 3 cycles of 16 delays and Mock 15 cycles
\* of 2 delays, each delay at full length and each pattern as written,
\* whatever the keys do meanwhile.
C8_Feedback ==
    /\ [](phase = "Celebrate"
            => win = 1 /\ anim = <<"Celebrate">> /\ cycles = i_anim
               /\ AnimShows(CelebratePattern))
    /\ [](phase = "Mock"
            => win = 0 /\ anim = <<"Mock">> /\ cycles = i_anim
               /\ AnimShows(MockPattern))
    /\ [](phase \in AnimPhases
            => animPolls = (cycles * (IF win = 1 THEN 16 ELSE 2) + step) * DELAYTIME
                           + (IF pc = "delay" THEN i_delay ELSE 0))
    /\ [](phase = "WaitRestart"
            => IF win = 1
               THEN anim = <<"Celebrate">> /\ cycles = 3
                    /\ animPolls = 3 * 16 * DELAYTIME
               ELSE anim = <<"Mock">> /\ cycles = 15
                    /\ animPolls = 15 * 2 * DELAYTIME)
    /\ [](phase \in AnimPhases \cup {"WaitRestart"}
            => (win = 1 <=> verdict = "none"))
    /\ [][InPlay => phase' \in {"Playback", "Verify", "Celebrate", "Mock"}]_vars

\* C8 witness: a won level-0 round whose Celebrate ran to its end although
\* keys were pressed during it
C8_Witness ==
    phase = "WaitRestart" /\ win = 1 /\ animKeys /\ seq_len = 5 /\ level = 0

\* C9: a standby timeout in SelectMode or SelectLevel sets sleep and leads
\* back to SelectMode with no gen_seq, playback, verify or animation; play
\* and the animations only run with sleep clear.
C9_TimeoutAbortsRound ==
    /\ [][pc = "standby_end"
            => sleep' = 1 /\ pc' = "main_check" /\ phase' = phase
               /\ UNCHANGED <<seq, seq_len, fresh, anim>>]_vars
    /\ [][pc = "main_check" /\ sleep # 0
            => phase' = "SelectMode" /\ pc' = "standby_off"
               /\ ~fresh' /\ anim' = <<>> /\ UNCHANGED <<seq, seq_len>>]_vars
    /\ [](phase \in {"Playback", "Verify", "Celebrate", "Mock"}
            => sleep = 0 /\ fresh)

\* C9 witness: the standby budget ran out after a mode had been chosen
C9_Witness ==
    pc = "main_check" /\ sleep = 1 /\ phase = "SelectLevel" /\ ~fresh

\* C10: the high four bits of the LED port are always 1.
C10_HighBitsHeld ==
    PORTB \div 16 = 15

\* ------------------------------------------------ the inputs that matter
\* The places where the program reads the input port.
SamplingPcs == {"while_key", "delay", "while_key_not", "wfk_poll"}

PcValues ==
    {"while_key", "standby_off", "standby_led", "delay", "delay_mirror",
     "standby_int", "standby_end", "main_check", "mirror_mode",
     "mirror_level", "mirror_release", "gen_seq", "while_key_not",
     "wfk_poll", "wfk_mirror", "wfk_done", "led_on", "led_off", "celebrate",
     "mock"}

PhaseValues ==
    {"WaitStart", "SelectMode", "SelectLevel", "Playback", "Verify",
     "Celebrate", "Mock", "WaitRestart"}

\* The sample s with SW4..SW7 released: it agrees with s on bits 0..3.
LowBitsOf(s) == 240 + (s % 16)

\* A read of sample s can take the program to position c of phase ph with
\* LED0..LED3 showing low.
ReadLeadsTo(s, c, ph, low) ==
    ENABLED (Next /\ keyboard' = s /\ pc' = c /\ phase' = ph
                  /\ PORTB' % 16 = low)

\* C11: only bits 0..3 of a sample influence the game.  Two runs that agree
\* up to a read and take there samples that differ only in bits 4..7 go to
\* the same position of the same phase with the same LED0..LED3 pattern:
\* whatever a read of s leads to, a read of s with SW4..SW7 released leads
\* to as well.
C11_LowBitsOnly ==
    pc \in SamplingPcs =>
        \A s \in Samples : \A c \in PcValues : \A ph \in PhaseValues :
            ReadLeadsTo(s, c, ph, PORTB % 16) =>
                ReadLeadsTo(LowBitsOf(s), c, ph, PORTB % 16)

\* --------------------------------------------------------- round by round
\* A pattern with one of the keys of keypattern pressed.
Pressed(bits, keypattern) == ~NoPatternKey(bits, keypattern)

\* C12: after Celebrate or Mock the game waits in WaitRestart until a sample
\* shows all keys released, and only that sample takes it to SelectMode with
\* nothing selected; in that round SelectLevel is entered only from
\* SelectMode with a mirrored SW0/SW1 pattern, the sequence is generated
\* only after a mirrored level pattern and its release, and Playback begins
\* only from SelectLevel with the sequence generated in that round.
C12_RestartAfterRelease ==
    /\ [][(phase \in AnimPhases)
            => (phase' = phase \/ phase' = "WaitRestart")]_vars
    /\ [](phase = "WaitRestart" => pc = "while_key_not")
    /\ [][phase = "WaitRestart" /\ keyboard' # 255
            => phase' = "WaitRestart"]_vars
    /\ [][phase = "WaitRestart" /\ phase' # "WaitRestart"
            => /\ keyboard' = 255 /\ phase' = "SelectMode"
               /\ pc' = "standby_off" /\ ~fresh']_vars
    /\ [][phase' = "SelectLevel" /\ phase # "SelectLevel"
            => /\ phase = "SelectMode" /\ pc = "while_key_not"
               /\ Pressed(PORTB, 3)]_vars
    /\ [](phase = "SelectLevel" /\ pc = "while_key_not"
            => Pressed(PORTB, 15) /\ level = bits2number(PORTB))
    /\ [][pc' = "gen_seq"
            => /\ pc = "mirror_release" /\ phase = "SelectLevel"
               /\ keyboard = 255 /\ ~fresh]_vars
    /\ [][InPlay' /\ ~InPlay => phase = "SelectLevel" /\ fresh]_vars

\* A second round: a sequence of an earlier round is still stored, and the
\* level key of the new round has been taken.
C12_Witness ==
    /\ phase = "SelectLevel" /\ pc = "while_key_not"
    /\ seq_len = 5 /\ ~fresh /\ level = 2 /\ PORTB = 251

\* -------------------------------------------------------- the first press
\* C13 as the specification states it: WaitStart is left only after a
\* sample with all keys released has been taken, so that the pressed sample
\* that starts the game follows a release.
C13_ReleasedBeforeStart ==
    phase # "WaitStart" => everReleased

\* C13: WaitStart is left for SelectMode at the first sample that is not
\* all-released, whether or not a released sample preceded it, and is not
\* left by a released sample; until a released sample is taken the game
\* gets no further than the mode selection.
C13_StartAtFirstPress ==
    /\ [][phase = "WaitStart"
            => IF keyboard' = 255
               THEN phase' = "WaitStart" /\ pc' = "while_key"
               ELSE phase' = "SelectMode" /\ pc' = "standby_off"]_vars
    /\ [](~everReleased => phase \in {"WaitStart", "SelectMode"})

\* SW0 held since power-on has started the game and been taken as the mode
\* key, and no released sample has been seen yet.
C13_Witness ==
    /\ phase = "SelectMode" /\ pc = "while_key_not"
    /\ ~everReleased /\ PORTB = 254 /\ keyboard = 254 /\ sleep = 0

\* ------------------------------------------------------ the standby LEDs
\* C14 as the specification states it: in every sub-step of every standby
\* run, the first after power-on and those after a timeout included, the
\* one LED of the sub-step is lit while the delay runs.
C14_OneLedLit ==
    (phase \in SelectPhases /\ pc = "delay") => PORTB = Single(i_sb)

\* C14: in every sub-step of a standby run, leds holds the pattern of the
\* one LED of that sub-step, and the sub-steps go LED0, LED1, LED2, LED3
\* within each outer count; while the delay runs the port shows that
\* pattern when sleep is clear, and stays all off when sleep is set (after
\* power-on and after a standby timeout).
C14_OneLedWhenAwake ==
    /\ []((phase \in SelectPhases /\ pc = "delay")
            => /\ i_sb \in 0..3 /\ leds = Single(i_sb)
               /\ PORTB = IF sleep = 0 THEN leds ELSE 255)
    /\ [][(phase \in SelectPhases /\ pc = "delay" /\ i_sb' # i_sb
              /\ pc' # "standby_end")
            => /\ i_sb' = (i_sb + 1) % 4
               /\ count_sb' = IF i_sb = 3 THEN count_sb + 1 ELSE count_sb]_vars

\* LED3 is lit in the second outer count of a level selection.
C14_Witness ==
    /\ phase = "SelectLevel" /\ pc = "delay" /\ sleep = 0
    /\ count_sb = 1 /\ i_sb = 3 /\ PORTB = 247

\* ---------------------------------------------------- the mock animation
\* The LEDs among LED0..LED3 that a port value lights.
LitLeds(p) == {b \in 0..3 : Bit(p, b) = 0}

\* C15 as the specification states it: the lit half of each Mock cycle
\* shows exactly two of LED0..LED3.
C15_MockShowsTwo ==
    (phase = "Mock" /\ pc = "delay" /\ step = 0)
        => Cardinality(LitLeds(PORTB)) = 2

\* C15: each of the 15 cycles of the Mock animation shows all four of
\* LED0..LED3 lit (and LED4..LED7 off) and then all LEDs off, and the
\* animation ends after the dark half of the 15th cycle.
C15_MockShowsFour ==
    /\ []((phase = "Mock" /\ pc = "delay")
            => /\ PORTB = IF step = 0 THEN 240 ELSE 255
               /\ LitLeds(PORTB) = IF step = 0 THEN 0..3 ELSE {}
               /\ i_anim < MockCycles /\ cycles = i_anim)
    /\ [][(phase = "Mock" /\ phase' # "Mock")
            => /\ i_anim = MockCycles - 1 /\ step = 1
               /\ cycles' = MockCycles /\ phase' = "WaitRestart"]_vars

\* The lit half of the last Mock cycle.
C15_Witness ==
    /\ phase = "Mock" /\ pc = "delay" /\ step = 0
    /\ i_anim = MockCycles - 1 /\ PORTB = 240

\* ------------------------------------------------ the level key patterns
\* The samples with exactly one of SW0..SW3 pressed and nothing else.
CanonicalKeys == {Single(n) : n \in 0..3}

\* C16: in SelectLevel only a sample with exactly one of SW0..SW3 pressed
\* is taken as the level; any other sample is ignored, so that the level
\* handed to gen_seq is one of 0..3 and Playback is entered only with such
\* a level.
C16_NonCanonicalIgnored ==
    /\ pc = "mirror_level" => keyboard \in CanonicalKeys
    /\ pc = "gen_seq" => level \in 0..3
    /\ phase = "Playback" => level \in 0..3

\* ------------------------------------------------- delay and delay_long
\* C17: delay with interruptible true returns true at the first sample that
\* is not all-released, having written that sample to the LED port; with
\* interruptible false, or when every sample is all-released, it takes
\* DELAYTIME samples, returns false and leaves the LED port as it was.
\* delay_long(count, interruptible) calls delay at most count times,
\* returns true at the first call that returns true (leaving out the
\* remaining calls) and false after count calls that returned false.
C17_DelayContract ==
    /\ [](pc \in {"delay", "delay_mirror"}
            => i_dl < count_dl /\ i_delay < DELAYTIME)
    /\ [](pc = "delay" => PORTB = PortBefore)
    /\ []((pc = "delay" /\ phase = "DelayLong1" /\ (i_dl > 0 \/ i_delay > 0))
            => keyboard = 255)
    /\ [][pc = "delay"
            => IF phase = "DelayLong1" /\ keyboard' # 255
               THEN pc' = "delay_mirror" /\ UNCHANGED <<PORTB, dlv>>
               ELSE /\ PORTB' = PORTB
                    /\ IF i_delay + 1 < DELAYTIME
                       THEN /\ pc' = "delay"
                            /\ i_delay' = i_delay + 1 /\ i_dl' = i_dl
                       ELSE IF i_dl + 1 < count_dl
                       THEN /\ pc' = "delay"
                            /\ i_delay' = 0 /\ i_dl' = i_dl + 1
                       ELSE pc' = "returned" /\ ret' = "false"]_vars
    /\ [][pc = "delay_mirror"
            => /\ pc' = "returned" /\ ret' = "true"
               /\ PORTB' = keyboard /\ keyboard # 255]_vars
    /\ [][(pc = "delay_long" /\ count_dl = 0)
            => pc' = "returned" /\ ret' = "false" /\ PORTB' = PORTB]_vars

\* delay_long(MaxCount, 1) returned true from its second delay, having
\* mirrored SW1.
C17_Witness ==
    /\ pc = "returned" /\ ret = "true" /\ phase = "DelayLong1"
    /\ count_dl = MaxCount /\ i_dl = 1 /\ PORTB = 253

\* ------------------------------------------------- one press, one symbol
\* C18: in Verify the pattern accepted for a symbol is a sample of
\* wait_for_key's polling loop; the loop is entered only from a release wait
\* on a sample with all keys released and stays only on such samples, and
\* after the pattern is accepted a release wait runs before the next
\* symbol.  So a released sample lies between the patterns accepted for two
\* consecutive symbols, and between the end of Playback and the pattern
\* accepted for the first symbol.
C18_ReleaseBetweenKeys ==
    /\ [](pc = "wfk_poll" => keyboard = 255 /\ phase = "Verify")
    /\ [][pc' = "wfk_mirror" => pc = "wfk_poll"]_vars
    /\ [][(pc' = "wfk_poll" /\ pc # "wfk_poll")
            => /\ pc = "while_key_not" /\ ret = "wfk_poll"
               /\ keyboard' = 255]_vars
    /\ [][(phase = "Playback" /\ phase' = "Verify")
            => pc' = "while_key_not" /\ ret' = "wfk_poll"]_vars
    /\ [][pc = "wfk_mirror"
            => pc' = "while_key_not" /\ ret' = "wfk_done"]_vars
    /\ [][(pc = "while_key_not" /\ phase = "Verify" /\ keyboard' # 255)
            => pc' = "while_key_not"]_vars

\* The right key for the second symbol of position 2 has been sampled
\* after the first symbol's key was accepted and released.
C18_Witness ==
    /\ pc = "wfk_mirror" /\ i_play = 2 /\ j_play = 1 /\ okPresses = 2
    /\ keyboard # 255 /\ keyboard = key

\* ------------------------------------------------- the round's sequence
\* The phases from play's first statement to the end of the round.
RoundPhases == {"Playback", "Verify", "Celebrate", "Mock", "WaitRestart"}

\* C19: gen_seq runs only in SelectLevel and only once per round (never
\* when this round's sequence exists already); play starts only from
\* SelectLevel in a round whose gen_seq has run, directly after it; and no
\* step taken in Playback, Verify, Celebrate, Mock or WaitRestart changes
\* seq or seq_len.
C19_SequencePerRound ==
    /\ [][(seq' # seq \/ seq_len' # seq_len \/ (fresh' /\ ~fresh))
            => /\ pc = "gen_seq" /\ phase = "SelectLevel"
               /\ ~fresh /\ fresh' /\ pc' = "main_check"]_vars
    /\ [][pc = "gen_seq" => ~fresh /\ fresh']_vars
    /\ [][(phase' \in RoundPhases /\ phase \notin RoundPhases)
            => /\ pc = "main_check" /\ phase = "SelectLevel"
               /\ fresh /\ sleep = 0]_vars
    /\ [](pc = "main_check" /\ sleep = 0 => fresh)
    /\ [](phase \in RoundPhases => fresh)
    /\ [][(phase \in RoundPhases) => UNCHANGED <<seq, seq_len>>]_vars

\* A second round is being verified with the sequence its own SelectLevel
\* generated: length 7 after a first round on level 0.
C19_Witness ==
    /\ phase = "Verify" /\ fresh /\ seq_len = 7 /\ level = 1
    /\ seq = 454761243 /\ i_play = 2 /\ pc = "wfk_poll"

\* ------------------------------------------------------------- progress
\* A release wait reads a sample with all keys released.
ReleaseSeen == WhileKeyNot /\ keyboard' = 255

\* The processor keeps executing, and every pressed key is released in the
\* end: a release wait that keeps sampling gets an all-released sample.
SpecFair == Spec /\ WF_vars(Next) /\ WF_vars(ReleaseSeen)

\* C20: if every release wait gets an all-released sample in the end, a
\* round that enters Playback reaches Celebrate or Mock, the animation is
\* followed by SelectMode, and the program always has a next step.  The key
\* budget does not give this by itself: a pressed sample in a release wait
\* of Verify or WaitRestart changes no counter, so the wait can go on for
\* any number of samples.
C20_RoundsEnd ==
    /\ (phase = "Playback") ~> (phase \in AnimPhases)
    /\ (phase \in AnimPhases) ~> (phase = "SelectMode")
    /\ [](pc \in PcValues /\ ENABLED Next)
    /\ [][(pc = "while_key_not" /\ keyboard' # 255)
            => UNCHANGED <<ctl, PORTB, glob, level, win, timeout, sbv, dlv,
                           plv, wfv, anv>>]_vars

\* The restart wait with a key held after a lost round.
C20_Witness ==
    /\ phase = "WaitRestart" /\ pc = "while_key_not" /\ keyboard = 254
    /\ win = 0 /\ seq_len = 5 /\ cycles = MockCycles

====
